---- MODULE Spec2Model ----
(***************************************************************************)
(* A model of fiobank.py: the FioBank adapter (statement retrieval,        *)
(* schema-driven transaction decoding, payment-order accumulation).        *)
(*                                                                         *)
(* Python values are modelled as tagged records:                           *)
(*   [t |-> "none"]                      None                              *)
(*   [t |-> "str",  s |-> <<chars>>]     str, a sequence of 1-char strings *)
(*   [t |-> "int",  n |-> k]             int                               *)
(*   [t |-> "float", mant, exp]          float  mant * 10^(-exp)           *)
(*   [t |-> "date", y, m, d]             datetime.date                     *)
(*   [t |-> "dict", m |-> function]      dict (JSON object)                *)
(*   [t |-> "list", l |-> sequence]      list (JSON array)                 *)
(* An exception is modelled by its class name in an `err` field; "none"    *)
(* means that the call returned normally.                                  *)
(***************************************************************************)
EXTENDS Integers, Sequences, FiniteSets, TLC

VARIABLES
    clock,           \* days elapsed since StartDate: date.today() = Today(clock)
    payment_orders,  \* children of self.payment_orders (the <Orders> element)
    returned,        \* history: orders returned by add_payment since the last prepare_payment
    lastCall,        \* history: the last completed public call, its inputs and outcome
    gen              \* the generator object returned by _parse_transactions

vars == <<clock, payment_orders, returned, lastCall, gen>>

(***************************************************************************)
(* Bounds of the model.                                                    *)
(***************************************************************************)
MaxDays == 1
MaxOrders == 2
MaxEntries == 2

(***************************************************************************)
(* Python values.                                                          *)
(***************************************************************************)
None == [t |-> "none"]
PyStr(s) == [t |-> "str", s |-> s]
PyInt(n) == [t |-> "int", n |-> n]
PyFloat(mant, exp) == [t |-> "float", mant |-> mant, exp |-> exp]
PyDate(y, m, d) == [t |-> "date", y |-> y, m |-> m, d |-> d]
PyDict(m) == [t |-> "dict", m |-> m]
PyList(l) == [t |-> "list", l |-> l]

Digits == {"0", "1", "2", "3", "4", "5", "6", "7", "8", "9"}
Whitespace == {" ", "\t", "\n"}
UpperCase == {"A", "B", "C", "D", "E", "F", "G", "H", "I", "J", "K", "L", "M",
              "N", "O", "P", "Q", "R", "S", "T", "U", "V", "W", "X", "Y", "Z"}

DigitVal(c) ==
    CASE c = "0" -> 0 [] c = "1" -> 1 [] c = "2" -> 2 [] c = "3" -> 3
      [] c = "4" -> 4 [] c = "5" -> 5 [] c = "6" -> 6 [] c = "7" -> 7
      [] c = "8" -> 8 [] c = "9" -> 9

DigitChar(n) ==
    CASE n = 0 -> "0" [] n = 1 -> "1" [] n = 2 -> "2" [] n = 3 -> "3"
      [] n = 4 -> "4" [] n = 5 -> "5" [] n = 6 -> "6" [] n = 7 -> "7"
      [] n = 8 -> "8" [] n = 9 -> "9"

\* int(s) for a sequence of digit characters
RECURSIVE DigitsVal(_)
DigitsVal(s) ==
    IF s = <<>> THEN 0
    ELSE 10 * DigitsVal(SubSeq(s, 1, Len(s) - 1)) + DigitVal(s[Len(s)])

\* the decimal digits of a natural number, str(n) for n >= 0
RECURSIVE NatChars(_)
NatChars(n) ==
    IF n < 10 THEN <<DigitChar(n)>>
    ELSE NatChars(n \div 10) \o <<DigitChar(n % 10)>>

\* '%0<width>d' % n
RECURSIVE ZeroPad(_, _)
ZeroPad(s, width) ==
    IF Len(s) >= width THEN s ELSE ZeroPad(<<"0">> \o s, width)

(***************************************************************************)
(* datetime.date: the calendar, date.today() and str(date).                *)
(***************************************************************************)
IsLeap(y) == (y % 4 = 0) /\ ((y % 100 # 0) \/ (y % 400 = 0))

DaysInMonth(y, m) ==
    IF m = 2 THEN (IF IsLeap(y) THEN 29 ELSE 28)
    ELSE IF m \in {4, 6, 9, 11} THEN 30 ELSE 31

NextDay(dt) ==
    IF dt.d < DaysInMonth(dt.y, dt.m) THEN PyDate(dt.y, dt.m, dt.d + 1)
    ELSE IF dt.m < 12 THEN PyDate(dt.y, dt.m + 1, 1)
    ELSE PyDate(dt.y + 1, 1, 1)

\* the calendar date on which the adapter is constructed
StartDate == PyDate(2024, 2, 28)

RECURSIVE Today(_)
Today(c) == IF c = 0 THEN StartDate ELSE NextDay(Today(c - 1))

\* date.__str__: isoformat, '%04d-%02d-%02d'
DateIso(dt) ==
    ZeroPad(NatChars(dt.y), 4) \o <<"-">> \o ZeroPad(NatChars(dt.m), 2)
        \o <<"-">> \o ZeroPad(NatChars(dt.d), 2)

(***************************************************************************)
(* Strings, numbers and subscripting as Python does them.                  *)
(***************************************************************************)
\* s[i], or "" past the end of s
At(s, i) == IF i \in 1..Len(s) THEN s[i] ELSE ""

\* s[:n]
Take(s, n) == SubSeq(s, 1, IF Len(s) < n THEN Len(s) ELSE n)

\* s[n:], with n counted from 1
Drop(s, n) == SubSeq(s, n, Len(s))

RECURSIVE lstrip(_)
lstrip(s) == IF s # <<>> /\ s[1] \in Whitespace THEN lstrip(Tail(s)) ELSE s

RECURSIVE rstrip(_)
rstrip(s) ==
    IF s # <<>> /\ s[Len(s)] \in Whitespace THEN rstrip(SubSeq(s, 1, Len(s) - 1)) ELSE s

\* str.strip()
strip(s) == rstrip(lstrip(s))

\* the index of the first c in s, 0 if there is none
RECURSIVE Find(_, _, _)
Find(s, c, from) ==
    IF from > Len(s) THEN 0
    ELSE IF s[from] = c THEN from
    ELSE Find(s, c, from + 1)

RECURSIVE Pow10(_)
Pow10(n) == IF n = 0 THEN 1 ELSE 10 * Pow10(n - 1)

\* a float as mant * 10^(-exp), without trailing zeros in the fraction
RECURSIVE Normal(_, _)
Normal(mant, exp) ==
    IF exp > 0 /\ mant % 10 = 0 THEN Normal(mant \div 10, exp - 1)
    ELSE PyFloat(mant, exp)

\* float(s) for a decimal literal s without exponent: [sign] digits [. [digits]]
\* or [sign] . digits, surrounding whitespace ignored; ValueError otherwise
float_of_chars(s0) ==
    LET s == strip(s0)
        neg == At(s, 1) = "-"
        body == IF At(s, 1) \in {"-", "+"} THEN Tail(s) ELSE s
        dot == Find(body, ".", 1)
        ip == IF dot = 0 THEN body ELSE SubSeq(body, 1, dot - 1)
        fp == IF dot = 0 THEN <<>> ELSE Drop(body, dot + 1)
        ok == /\ ip \o fp # <<>>
              /\ \A i \in 1..Len(ip) : ip[i] \in Digits
              /\ \A i \in 1..Len(fp) : fp[i] \in Digits
        mag == DigitsVal(ip \o fp)
    IN  IF ok
        THEN [err |-> "none", val |-> Normal(IF neg THEN -mag ELSE mag, Len(fp))]
        ELSE [err |-> "ValueError", val |-> None]

\* float(value)
float(v) ==
    CASE v.t = "str" -> float_of_chars(v.s)
      [] v.t = "int" -> [err |-> "none", val |-> PyFloat(v.n, 0)]
      [] v.t = "float" -> [err |-> "none", val |-> v]
      [] OTHER -> [err |-> "TypeError", val |-> None]

\* repr of a float
float_chars(f) ==
    LET neg == f.mant < 0
        mag == IF neg THEN -f.mant ELSE f.mant
        p == Pow10(f.exp)
        txt == NatChars(mag \div p) \o <<".">> \o
               (IF f.exp = 0 THEN <<"0">> ELSE ZeroPad(NatChars(mag % p), f.exp))
    IN  IF neg THEN <<"-">> \o txt ELSE txt

\* str(value) for the values that reach it
str(v) ==
    CASE v.t = "str" -> v.s
      [] v.t = "int" -> IF v.n < 0 THEN <<"-">> \o NatChars(-v.n) ELSE NatChars(v.n)
      [] v.t = "float" -> float_chars(v)
      [] v.t = "date" -> DateIso(v)
      [] v.t = "none" -> <<"N", "o", "n", "e">>

\* bool(value)
Truthy(v) ==
    CASE v.t = "none" -> FALSE
      [] v.t = "str" -> v.s # <<>>
      [] v.t = "int" -> v.n # 0
      [] v.t = "float" -> v.mant # 0
      [] v.t = "dict" -> DOMAIN v.m # {}
      [] v.t = "list" -> v.l # <<>>
      [] OTHER -> TRUE

\* value[key] for a str key
GetItem(v, key) ==
    IF v.t = "dict"
    THEN IF key \in DOMAIN v.m THEN [err |-> "none", val |-> v.m[key]]
         ELSE [err |-> "KeyError", val |-> None]
    ELSE [err |-> "TypeError", val |-> None]

(***************************************************************************)
(* coerce_date                                                             *)
(***************************************************************************)
\* datetime.strptime(s, '%Y-%m-%d').date(): the format's regular expression
\*   (\d\d\d\d)-(1[0-2]|0[1-9]|[1-9])-(3[01]|[12]\d|0[1-9]|[1-9]| [1-9])
\* must match a prefix of s and leave nothing over, and the date must exist
strptime_date(s) ==
    LET NonZero == Digits \ {"0"}
        yOk == \A i \in 1..4 : At(s, i) \in Digits
        mLen == IF At(s, 6) = "1" /\ At(s, 7) \in {"0", "1", "2"} THEN 2
                ELSE IF At(s, 6) = "0" /\ At(s, 7) \in NonZero THEN 2
                ELSE IF At(s, 6) \in NonZero THEN 1
                ELSE 0
        p == 7 + mLen
        dLen == IF At(s, p) = "3" /\ At(s, p + 1) \in {"0", "1"} THEN 2
                ELSE IF At(s, p) \in {"1", "2"} /\ At(s, p + 1) \in Digits THEN 2
                ELSE IF At(s, p) = "0" /\ At(s, p + 1) \in NonZero THEN 2
                ELSE IF At(s, p) \in NonZero THEN 1
                ELSE IF At(s, p) = " " /\ At(s, p + 1) \in NonZero THEN 2
                ELSE 0
        matched == /\ yOk /\ At(s, 5) = "-"
                   /\ mLen > 0 /\ At(s, 6 + mLen) = "-"
                   /\ dLen > 0
                   /\ Len(s) = p + dLen - 1
        y == DigitsVal(SubSeq(s, 1, 4))
        m == DigitsVal(SubSeq(s, 6, 5 + mLen))
        d == DigitsVal(strip(SubSeq(s, p, p + dLen - 1)))
    IN  IF matched /\ y >= 1 /\ d <= DaysInMonth(y, m)
        THEN [err |-> "none", val |-> PyDate(y, m, d)]
        ELSE [err |-> "ValueError", val |-> None]

coerce_date(value) ==
    CASE value.t = "datetime" -> [err |-> "none", val |-> PyDate(value.y, value.m, value.d)]
      [] value.t = "date" -> [err |-> "none", val |-> value]
      [] value.t = "str" -> strptime_date(Take(value.s, 10))
      [] OTHER -> [err |-> "TypeError", val |-> None]

(***************************************************************************)
(* sanitize_value                                                          *)
(***************************************************************************)
\* convert(value) for the converters of the two schemas
Convert(convert, v) ==
    CASE convert = "str" -> [err |-> "none", val |-> PyStr(str(v))]
      [] convert = "float" -> float(v)
      [] convert = "coerce_date" -> coerce_date(v)

sanitize_value(value, convert) ==
    LET stripped == IF value.t = "str"
                    THEN (IF strip(value.s) = <<>> THEN None ELSE PyStr(strip(value.s)))
                    ELSE value
    IN  IF convert # "none" /\ stripped.t # "none"
        THEN Convert(convert, stripped)
        ELSE [err |-> "none", val |-> stripped]

(***************************************************************************)
(* Payment orders: add_payment, prepare_payment, do_payment.               *)
(*                                                                         *)
(* An XML element is [tag, children]; the children of a payment element    *)
(* are kept as a function from the child's tag to its text: the code adds  *)
(* them while iterating over Python sets, whose order is unspecified.      *)
(***************************************************************************)
RequiredDomestic == {"accountFrom", "currency", "amount", "accountTo", "bankCode", "date"}
OptionalDomestic == {"ks", "vs", "ss", "messageForRecipient", "comment",
                     "paymentReason", "paymentType"}
RequiredT2 == {"accountFrom", "currency", "amount", "accountTo", "bankCode", "date"}
OptionalT2 == {"ks", "vs", "ss", "messageForRecipient", "comment",
               "paymentReason", "paymentType"}
RequiredForeign == {"accountFrom", "currency", "amount", "accountTo", "bic", "date",
                    "benefName", "benefStreet", "benefCity", "benefCountry",
                    "remittanceInfo1", "detailsOfCharges", "paymentReason"}
OptionalForeign == {"comment", "remittanceInfo2", "remittanceInfo3"}

\* The if/elif chain of add_payment.  The first test reads the parameter
\* payment_type; the two elif tests read the name paymentType, which is bound
\* nowhere, so evaluating the first elif raises NameError.
field_sets(payment_type) ==
    IF payment_type = "DomesticTransaction"
    THEN [err |-> "none", required |-> RequiredDomestic, optional |-> OptionalDomestic]
    ELSE [err |-> "NameError", required |-> {}, optional |-> {}]

\* ET.Element(payment_type): a detached element; the Orders element is untouched
new_payment_element_attached(orders, payment_type) ==
    Append(orders, [tag |-> payment_type, children |-> <<>>])

new_payment_element(orders, payment_type) == orders

\* data['date'] = str(date.today())
stamp_date_keep_supplied(data, today) ==
    [k \in DOMAIN data \cup {"date"} |->
        IF k \in DOMAIN data THEN data[k] ELSE PyStr(str(today))]

stamp_date(data, today) ==
    [k \in DOMAIN data \cup {"date"} |->
        IF k = "date" THEN PyStr(str(today)) ELSE data[k]]

\* the text children of the payment element: one per required field, and one
\* per optional field present in data
payment_children(data, required, optional) ==
    [index \in required \cup (optional \cap DOMAIN data) |-> str(data[index])]

\* self.payment_orders.append(payment)
append_order_front(orders, payment) == <<payment>> \o orders

append_order(orders, payment) == Append(orders, payment)

\* add_payment(data, payment_type): the exception raised ("none" if it
\* returns), the element returned, the caller's dict and the Orders children
\* after the call
add_payment(data, payment_type, today, orders) ==
    LET fs == field_sets(payment_type) IN
    IF fs.err # "none"
    THEN [err |-> fs.err, ret |-> None, data |-> data, orders |-> orders]
    ELSE LET detached == new_payment_element(orders, payment_type)
             stamped == stamp_date(data, today)
         IN  IF \E index \in fs.required : index \notin DOMAIN stamped
             THEN [err |-> "KeyError", ret |-> None, data |-> stamped,
                   orders |-> detached]
             ELSE LET payment == [tag |-> payment_type,
                                  children |-> payment_children(stamped, fs.required,
                                                                fs.optional)]
                  IN  [err |-> "none", ret |-> payment, data |-> stamped,
                       orders |-> append_order(detached, payment)]

\* prepare_payment(): a fresh Import element with a fresh, empty Orders child
prepare_payment_orders == <<>>

\* self.payment_xml as built by prepare_payment, with the current orders
payment_xml(orders) ==
    [tag |-> "Import",
     attrib |-> [xmlns_xsi |-> "http://www.w3.org/2001/XMLSchema-instance",
                 xsi_noNamespaceSchemaLocation |-> "http://www.fio.cz/schema/importIB.xsd"],
     children |-> <<[tag |-> "Orders", children |-> orders]>>]

\* do_payment(): dumps and serializes the document and prepares (but never
\* sends) a POST request; the Orders element is only read
do_payment_orders(orders) == orders

\* the HTTP requests do_payment sends: requests.Request(...).prepare() builds
\* the request and no session ever sends it
do_payment_requests == <<>>

(***************************************************************************)
(* The calls the model makes to add_payment.                               *)
(***************************************************************************)
PaymentTypes == {"DomesticTransaction", "T2Transaction", "ForeignTransaction",
                 "StandingOrder"}
KnownPaymentTypes == {"DomesticTransaction", "T2Transaction", "ForeignTransaction"}

\* the required fields the source lists for a payment type
RequiredOf(payment_type) ==
    CASE payment_type = "DomesticTransaction" -> RequiredDomestic
      [] payment_type = "T2Transaction" -> RequiredT2
      [] payment_type = "ForeignTransaction" -> RequiredForeign
      [] OTHER -> RequiredDomestic

SampleValue(field) ==
    IF field = "amount" THEN PyInt(23)
    ELSE IF field = "currency" THEN PyStr(<<"C", "Z", "K">>)
    ELSE PyStr(<<"0", "3", "4", "3">>)

\* dates a caller may put under 'date': an old one, and the construction day's
SuppliedDates == {PyStr(<<"1", "9", "9", "9", "-", "1", "2", "-", "3", "1">>),
                  PyStr(DateIso(StartDate))}

SampleOptional == {"vs"}

\* the fields a call may leave out: any one of a domestic payment's, two of
\* the other types'
Droppable(payment_type) ==
    IF payment_type = "DomesticTransaction" THEN RequiredDomestic \ {"date"}
    ELSE IF payment_type \in {"T2Transaction", "ForeignTransaction"}
         THEN RequiredOf(payment_type) \cap {"accountTo", "bic"}
    ELSE {}

\* every field of the type but at most one, with or without 'date' and 'vs'
PaymentData(payment_type) ==
    LET base == RequiredOf(payment_type) \ {"date"} IN
    { [k \in keys |-> IF k = "date" THEN dt ELSE SampleValue(k)] :
        keys \in { (base \ drop) \cup opt \cup wd :
                      drop \in {{}} \cup {{f} : f \in Droppable(payment_type)},
                      opt \in SUBSET SampleOptional,
                      wd \in {{}, {"date"}} },
        dt \in SuppliedDates }

(***************************************************************************)
(* The request dispatcher: _request and ThrottlingError.                   *)
(***************************************************************************)
\* requests.codes['conflict']
conflict == 409

\* ThrottlingError.__str__
ThrottlingError_str ==
    <<"T", "o", "k", "e", "n", " ", "s", "h", "o", "u", "l", "d", " ", "b", "e", " ", "u", "s", "e", "d", " ", "o", "n", "l", "y", " ", "o", "n", "c", "e",
      " ", "p", "e", "r", " ", "3", "0", "s", ".">>

\* the exception a response's status raises: ThrottlingError for conflict,
\* then raise_for_status(): HTTPError for any 4xx or 5xx
status_error_without_throttling(status) ==
    IF status >= 400 /\ status < 600 THEN "HTTPError" ELSE "none"

status_error(status) ==
    IF status = conflict THEN "ThrottlingError"
    ELSE IF status >= 400 /\ status < 600 THEN "HTTPError"
    ELSE "none"

\* str(exception), modelled for ThrottlingError only
ErrorText(err) == IF err = "ThrottlingError" THEN ThrottlingError_str ELSE <<>>

\* the record of one HTTP round trip: the URL's action and parameters as
\* formatted into the template, and the status answered (0: no answer)
Request(action, params, resp) ==
    [action |-> action,
     params |-> [k \in DOMAIN params |-> str(params[k])],
     status |-> IF resp.kind = "http" THEN resp.status ELSE 0]

\* _request(action, **params) when the server answers resp
\* (kind "neterr": requests.get raises ConnectionError)
_request(action, params, resp) ==
    LET req == Request(action, params, resp)
        failed(e) == [err |-> e, val |-> None, reqs |-> <<req>>]
    IN  IF resp.kind = "neterr" THEN failed("ConnectionError")
        ELSE IF status_error(resp.status) # "none" THEN failed(status_error(resp.status))
        ELSE IF resp.content.t = "empty" THEN [err |-> "none", val |-> None, reqs |-> <<req>>]
        ELSE IF resp.content.t = "json"
             THEN [err |-> "none", val |-> resp.content.v, reqs |-> <<req>>]
        ELSE failed("JSONDecodeError")

(***************************************************************************)
(* The schema tables and the statement decoder.                            *)
(***************************************************************************)
transaction_schema ==
    [column0 |-> [field |-> "date", convert |-> "coerce_date"],
     column1 |-> [field |-> "amount", convert |-> "float"],
     column2 |-> [field |-> "account_number", convert |-> "str"],
     column3 |-> [field |-> "bank_code", convert |-> "str"],
     column4 |-> [field |-> "constant_symbol", convert |-> "str"],
     column5 |-> [field |-> "variable_symbol", convert |-> "str"],
     column6 |-> [field |-> "specific_symbol", convert |-> "str"],
     column7 |-> [field |-> "user_identification", convert |-> "str"],
     column8 |-> [field |-> "type", convert |-> "str"],
     column9 |-> [field |-> "executor", convert |-> "str"],
     column10 |-> [field |-> "account_name", convert |-> "str"],
     column12 |-> [field |-> "bank_name", convert |-> "str"],
     column14 |-> [field |-> "currency", convert |-> "str"],
     column16 |-> [field |-> "recipient_message", convert |-> "str"],
     column17 |-> [field |-> "instruction_id", convert |-> "str"],
     column18 |-> [field |-> "specification", convert |-> "str"],
     column22 |-> [field |-> "transaction_id", convert |-> "str"],
     column25 |-> [field |-> "comment", convert |-> "str"],
     column26 |-> [field |-> "bic", convert |-> "str"]]

info_schema ==
    [accountid |-> [field |-> "account_number", convert |-> "str"],
     bankid |-> [field |-> "bank_code", convert |-> "str"],
     currency |-> [field |-> "currency", convert |-> "str"],
     iban |-> [field |-> "iban", convert |-> "str"],
     bic |-> [field |-> "bic", convert |-> "str"],
     closingbalance |-> [field |-> "balance", convert |-> "float"]]

\* key.lower(), for the keys the model's payloads use
lower(key) ==
    CASE key = "accountId" -> "accountid"
      [] key = "bankId" -> "bankid"
      [] key = "closingBalance" -> "closingbalance"
      [] key = "idFrom" -> "idfrom"
      [] key = "Column1" -> "column1"
      [] key = "COLUMN25" -> "column25"
      [] OTHER -> key

\* obj.get(key)
Get(obj, key) == IF key \in DOMAIN obj THEN obj[key] ELSE None

\* _add_account_number_full(obj)
_add_account_number_full(obj) ==
    LET account_number == Get(obj, "account_number")
        bank_code == Get(obj, "bank_code")
        account_number_full ==
            IF account_number.t # "none" /\ bank_code.t # "none"
            THEN PyStr(str(account_number) \o <<"/">> \o str(bank_code))
            ELSE None
    IN  [k \in DOMAIN obj \cup {"account_number_full"} |->
            IF k = "account_number_full" THEN account_number_full ELSE obj[k]]

\* _parse_info(data).  A dict is a function here, so the payloads of the model
\* never hold two keys with the same lower-case form.
_parse_info(data) ==
    LET statement == GetItem(data, "accountStatement")
        info == GetItem(statement.val, "info")
    IN  IF statement.err # "none" THEN [err |-> statement.err, val |-> None]
        ELSE IF info.err # "none" THEN [err |-> info.err, val |-> None]
        ELSE IF info.val.t # "dict" THEN [err |-> "AttributeError", val |-> None]
        ELSE LET items == info.val.m
                 known == {key \in DOMAIN items : lower(key) \in DOMAIN info_schema}
                 san(key) == sanitize_value(items[key], info_schema[lower(key)].convert)
                 bad == {key \in known : san(key).err # "none"}
                 fields == {info_schema[lower(key)].field : key \in known}
                 source(f) == CHOOSE key \in known : info_schema[lower(key)].field = f
             IN  IF bad # {}
                 THEN [err |-> san(CHOOSE key \in bad : TRUE).err, val |-> None]
                 ELSE [err |-> "none",
                       val |-> _add_account_number_full(
                                   [f \in fields |-> san(source(f)).val])]

\* the number of digits of s from position i on
RECURSIVE DigitRun(_, _)
DigitRun(s, i) == IF At(s, i) \in Digits THEN 1 + DigitRun(s, i + 1) ELSE 0

\* _amount_re.match(s): whether a prefix of s matches -?\d+(\.\d+)? [A-Z]{3}
amount_re_match(s) ==
    LET i == IF At(s, 1) = "-" THEN 2 ELSE 1
        n1 == DigitRun(s, i)
        j == i + n1
        n2 == IF At(s, j) = "." THEN DigitRun(s, j + 1) ELSE 0
        k == IF n2 > 0 THEN j + 1 + n2 ELSE j
    IN  /\ n1 > 0
        /\ At(s, k) = " "
        /\ \A q \in 1..3 : At(s, k + q) \in UpperCase

\* s.split(' ')
RECURSIVE split(_)
split(s) ==
    LET sp == Find(s, " ", 1) IN
    IF sp = 0 THEN <<s>>
    ELSE <<SubSeq(s, 1, sp - 1)>> \o split(Drop(s, sp + 1))

\* `if not column_data: continue`
column_skipped(column_data) == ~Truthy(column_data)

\* schema[column_name.lower()]: KeyError for a key the schema does not hold
lookup_error(column_name) ==
    IF lower(column_name) \in DOMAIN transaction_schema THEN "none" ELSE "KeyError"

\* sanitize_value(column_data['value'], convert)
column_value(column_data, convert) ==
    LET raw == GetItem(column_data, "value") IN
    IF raw.err # "none" THEN raw ELSE sanitize_value(raw.val, convert)

\* what the loop over entry.items() does with one column: "skip", the
\* exception it raises, or "none" when it stores a value
column_outcome_unknown_skipped(column_name, column_data) ==
    IF column_skipped(column_data) THEN "skip"
    ELSE IF lookup_error(column_name) # "none" THEN "skip"
    ELSE column_value(column_data, transaction_schema[lower(column_name)].convert).err

column_outcome(column_name, column_data) ==
    IF column_skipped(column_data) THEN "skip"
    ELSE IF lookup_error(column_name) # "none" THEN lookup_error(column_name)
    ELSE column_value(column_data, transaction_schema[lower(column_name)].convert).err

\* `trans.setdefault(field_name, None)` for every field of the schema
fill_missing(trans) ==
    LET fields == {transaction_schema[c].field : c \in DOMAIN transaction_schema} IN
    [f \in fields \cup DOMAIN trans |-> IF f \in DOMAIN trans THEN trans[f] ELSE None]

\* original_amount and original_currency from the specification
refine_specification(trans) ==
    LET specification == Get(trans, "specification")
        parts == split(specification.s)
        with(amount, currency) ==
            [f \in DOMAIN trans \cup {"original_amount", "original_currency"} |->
                IF f = "original_amount" THEN amount
                ELSE IF f = "original_currency" THEN currency
                ELSE trans[f]]
    IN  IF specification.t # "none" /\ amount_re_match(specification.s)
        THEN IF Len(parts) # 2 THEN [err |-> "ValueError", val |-> None]
             ELSE IF float_of_chars(parts[1]).err # "none"
                  THEN [err |-> "ValueError", val |-> None]
             ELSE [err |-> "none",
                   val |-> with(float_of_chars(parts[1]).val, PyStr(parts[2]))]
        ELSE [err |-> "none", val |-> with(None, None)]

\* One pass of the body of `for entry in entries`: the exceptions it may raise
\* (errs, empty when it reaches the yield) and the transaction it yields.
\* A dict is a function here, so which of several faulty columns raises first
\* is left open, and the payloads of the model never hold two columns of one
\* entry with the same lower-case key.
decode_entry(entry) ==
    IF entry.t # "dict" THEN [errs |-> {"AttributeError"}, val |-> None]
    ELSE LET columns == entry.m
             outcome(c) == column_outcome(c, columns[c])
             stored == {c \in DOMAIN columns : outcome(c) = "none"}
             raising == {c \in DOMAIN columns : outcome(c) \notin {"none", "skip"}}
             source(f) == CHOOSE c \in stored : transaction_schema[lower(c)].field = f
             parsed == [f \in {transaction_schema[lower(c)].field : c \in stored} |->
                           column_value(columns[source(f)],
                                        transaction_schema[lower(source(f))].convert).val]
             refined == refine_specification(fill_missing(parsed))
         IN  IF raising # {} THEN [errs |-> {outcome(c) : c \in raising}, val |-> None]
             ELSE IF refined.err # "none" THEN [errs |-> {refined.err}, val |-> None]
             ELSE [errs |-> {}, val |-> _add_account_number_full(refined.val)]

\* data['accountStatement']['transactionList']['transaction'] inside
\* `try: ... except TypeError: entries = []`
entries_of_uncaught(data) ==
    LET statement == GetItem(data, "accountStatement")
        list == GetItem(statement.val, "transactionList")
        transaction == GetItem(list.val, "transaction")
    IN  IF statement.err # "none" THEN statement
        ELSE IF list.err # "none" THEN list
        ELSE transaction

entries_of(data) ==
    LET statement == GetItem(data, "accountStatement")
        list == GetItem(statement.val, "transactionList")
        transaction == GetItem(list.val, "transaction")
        first == IF statement.err # "none" THEN statement
                 ELSE IF list.err # "none" THEN list
                 ELSE transaction
    IN  IF first.err = "TypeError" THEN [err |-> "none", val |-> PyList(<<>>)]
        ELSE first

\* iter(entries) of the for statement: the items, or TypeError
iterate(entries) ==
    CASE entries.t = "list" -> [err |-> "none", items |-> entries.l]
      [] entries.t = "str" ->
            [err |-> "none", items |-> [i \in 1..Len(entries.s) |-> PyStr(<<entries.s[i]>>)]]
      [] entries.t = "dict" ->
            [err |-> "none",
             items |-> [i \in 1..Cardinality(DOMAIN entries.m) |-> PyStr(<<>>)]]
      [] OTHER -> [err |-> "TypeError", items |-> <<>>]

\* no generator
NoGen == [pc |-> "none"]

\* the first next() on the generator runs the body up to the for statement
gen_start(g) ==
    LET e == entries_of(g.data)
        it == iterate(e.val)
    IN  IF g.pc # "created" THEN g
        ELSE IF e.err # "none" THEN [g EXCEPT !.pc = "raised", !.err = e.err]
        ELSE IF it.err # "none" THEN [g EXCEPT !.pc = "raised", !.err = it.err]
        ELSE [g EXCEPT !.pc = "running", !.entries = it.items]

\* next(generator): the generators it may leave behind.  It runs the body up
\* to the next yield (pc "suspended", one more transaction yielded), to an
\* exception (pc "raised") or to the end (pc "done": StopIteration)
gen_next(g) ==
    LET started == gen_start(g)
        d == decode_entry(started.entries[started.pos + 1])
    IN  IF started.pc = "raised" THEN {started}
        ELSE IF started.pos = Len(started.entries) THEN {[started EXCEPT !.pc = "done"]}
        ELSE IF d.errs # {}
             THEN {[started EXCEPT !.pc = "raised", !.err = e, !.pos = @ + 1] : e \in d.errs}
        ELSE {[started EXCEPT !.pc = "suspended", !.pos = @ + 1,
                              !.yielded = Append(@, d.val)]}

\* the generator object _parse_transactions(data) returns: nothing of its
\* body has run yet
NewGen(data) ==
    [pc |-> "created", data |-> data, entries |-> <<>>, pos |-> 0,
     yielded |-> <<>>, err |-> "none"]

(***************************************************************************)
(* The read operations: info, period, statement, last.  Each is given the  *)
(* answers of the server to the requests it may send, and yields the       *)
(* exception raised, the value returned and the requests sent.             *)
(***************************************************************************)
info(today, resp) ==
    LET r == _request("periods", [from_date |-> today, to_date |-> today], resp)
        parsed == _parse_info(r.val)
    IN  IF r.err # "none" THEN [err |-> r.err, ret |-> None, reqs |-> r.reqs]
        ELSE [err |-> parsed.err, ret |-> parsed.val, reqs |-> r.reqs]

period(from_date, to_date, resp) ==
    LET f == coerce_date(from_date)
        t == coerce_date(to_date)
        r == _request("periods", [from_date |-> f.val, to_date |-> t.val], resp)
    IN  IF f.err # "none" THEN [err |-> f.err, ret |-> NoGen, reqs |-> <<>>]
        ELSE IF t.err # "none" THEN [err |-> t.err, ret |-> NoGen, reqs |-> <<>>]
        ELSE IF r.err # "none" THEN [err |-> r.err, ret |-> NoGen, reqs |-> r.reqs]
        ELSE [err |-> "none", ret |-> NewGen(r.val), reqs |-> r.reqs]

statement(year, number, resp) ==
    LET r == _request("by-id", [year |-> year, number |-> number], resp)
    IN  IF r.err # "none" THEN [err |-> r.err, ret |-> NoGen, reqs |-> r.reqs]
        ELSE [err |-> "none", ret |-> NewGen(r.val), reqs |-> r.reqs]

\* `if from_id and from_date`
both_constraints_unchecked(from_id, from_date) == FALSE

both_constraints(from_id, from_date) == Truthy(from_id) /\ Truthy(from_date)

\* the `if from_id: ... elif from_date: ...` of last
set_last(from_id, from_date, resp) ==
    IF Truthy(from_id)
    THEN LET r == _request("set-last-id", [from_id |-> from_id], resp)
         IN  [err |-> r.err, reqs |-> r.reqs]
    ELSE IF Truthy(from_date)
    THEN LET d == coerce_date(from_date)
             r == _request("set-last-date", [from_date |-> d.val], resp)
         IN  IF d.err # "none" THEN [err |-> d.err, reqs |-> <<>>]
             ELSE [err |-> r.err, reqs |-> r.reqs]
    ELSE [err |-> "none", reqs |-> <<>>]

last(from_id, from_date, resp1, resp2) ==
    IF both_constraints(from_id, from_date)
    THEN [err |-> "ValueError", ret |-> NoGen, reqs |-> <<>>]
    ELSE LET s == set_last(from_id, from_date, resp1)
             r == _request("last", <<>>, resp2)
         IN  IF s.err # "none" THEN [err |-> s.err, ret |-> NoGen, reqs |-> s.reqs]
             ELSE IF r.err # "none"
                  THEN [err |-> r.err, ret |-> NoGen, reqs |-> s.reqs \o r.reqs]
             ELSE [err |-> "none", ret |-> NewGen(r.val), reqs |-> s.reqs \o r.reqs]

(***************************************************************************)
(* The answers of the server and the arguments of the calls the model      *)
(* makes.                                                                  *)
(***************************************************************************)
SeqsUpTo(S, n) == UNION {[1..k -> S] : k \in 0..n}

\* a column as the provider sends it
Col(v) == PyDict([value |-> v, name |-> PyStr(<<"n">>)])

SampleEntries ==
    { PyDict(<<>>),
      PyDict([Column1 |-> Col(PyInt(7))]),
      PyDict([Column1 |-> Col(PyStr(<<"7", ".", "5">>))]),
      PyDict([Column1 |-> Col(PyStr(<<"x">>))]),
      PyDict([Column1 |-> None, column5 |-> PyDict(<<>>)]),
      PyDict([column0 |-> Col(PyStr(<<"2", "0", "2", "4", "-", "0", "1", "-", "0", "5", "+", "0", "1", "0", "0">>))]),
      PyDict([column2 |-> Col(PyStr(<<" ", "1", "2", " ">>))]),
      PyDict([column2 |-> Col(PyInt(12)), column3 |-> Col(PyStr(<<"0", "3", "4", "3">>))]),
      PyDict([column18 |-> Col(PyStr(<<"-", "7", ".", "5", " ", "E", "U", "R">>))]),
      PyDict([column18 |-> Col(PyStr(<<"2", "0", " ", "E", "U", "R", " ", "f", "e", "e">>))]),
      PyDict([column18 |-> Col(PyStr(<<"f", "e", "e", " ", "4", "2">>))]),
      PyDict([COLUMN25 |-> Col(PyStr(<<" ">>))]),
      PyDict([COLUMN25 |-> Col(PyStr(<<>>)), column8 |-> Col(None)]),
      PyDict([column7 |-> PyDict([name |-> PyStr(<<"n">>)])]),
      PyDict([column99 |-> None]),
      PyDict([column99 |-> PyDict(<<>>), column14 |-> Col(PyStr(<<"C", "Z", "K">>))]),
      PyDict([column99 |-> Col(PyStr(<<"a">>))]),
      PyDict([column99 |-> Col(PyStr(<<"a">>)), Column1 |-> Col(PyStr(<<"x">>))]),
      PyDict([column99 |-> Col(PyInt(1)), column2 |-> Col(PyInt(12))]),
      PyStr(<<"e">>) }

SampleInfo ==
    PyDict([accountId |-> PyStr(<<"1", "2">>), bankId |-> PyStr(<<"0", "3", "4", "3">>),
            closingBalance |-> PyInt(7), idFrom |-> PyInt(1)])

\* a statement with the given value under 'transactionList'
Statement(list) ==
    PyDict([accountStatement |-> PyDict([info |-> SampleInfo, transactionList |-> list])])

\* payloads without a list of transactions
OddPayloads ==
    { None,
      PyDict(<<>>),
      PyDict([accountStatement |-> None]),
      PyDict([accountStatement |-> PyList(<<>>)]),
      PyDict([accountStatement |-> PyDict([info |-> SampleInfo])]),
      Statement(None),
      Statement(PyList(<<PyDict(<<>>)>>)),
      Statement(PyStr(<<"x">>)),
      Statement(PyInt(5)),
      Statement(PyDict(<<>>)),
      Statement(PyDict([transaction |-> None])),
      Statement(PyDict([transaction |-> PyDict([a |-> None])])) }

Payloads ==
    OddPayloads \cup
    {Statement(PyDict([transaction |-> PyList(es)])) : es \in SeqsUpTo(SampleEntries, MaxEntries)}

\* the payloads the server answers with in the model of the read operations
NetPayloads ==
    { None,
      PyDict([accountStatement |-> PyDict([info |-> SampleInfo])]),
      Statement(PyDict([transaction |->
          PyList(<<PyDict([Column1 |-> Col(PyInt(7))]), PyDict([column99 |-> Col(PyInt(1))])>>)])) }

Contents(payloads) ==
    {[t |-> "empty"], [t |-> "garbage"]} \cup {[t |-> "json", v |-> d] : d \in payloads}

\* what a request may meet: no answer, an error status, or success and a body
Responses(payloads) ==
    {[kind |-> "neterr"]} \cup
    {[kind |-> "http", status |-> st, content |-> [t |-> "empty"]] : st \in {conflict, 500}} \cup
    {[kind |-> "http", status |-> 200, content |-> c] : c \in Contents(payloads)}

DateArgs ==
    { None,
      [t |-> "datetime", y |-> 2024, m |-> 1, d |-> 5, H |-> 10],
      PyStr(<<"2", "0", "2", "4", "-", "0", "1", "-", "0", "5", "T", "1", "0", ":", "0", "0">>),
      PyStr(<<"2", "0", "2", "4", "-", "0", "2", "-", "3", "0">>) }

FromIds == {None, PyInt(0), PyStr(<<"1", "2", "3">>)}

FromDates == {None, PyStr(<<>>), PyStr(<<"2", "0", "2", "4", "-", "0", "1", "-", "0", "1">>), PyStr(<<"0", "1", ".", "0", "1", ".", "2", "0", "2", "4">>)}

(***************************************************************************)
(* The adapter as a state machine.                                         *)
(***************************************************************************)
\* FioBank.__init__: stores the token and calls prepare_payment
Init ==
    /\ clock = 0
    /\ payment_orders = prepare_payment_orders
    /\ returned = <<>>
    /\ lastCall = [op |-> "__init__"]
    /\ gen = NoGen

\* the calendar day changes
Tick ==
    /\ clock < MaxDays
    /\ clock' = clock + 1
    /\ UNCHANGED <<payment_orders, returned, lastCall, gen>>

AddPayment ==
    \E payment_type \in PaymentTypes :
      \E data \in PaymentData(payment_type) :
        LET r == add_payment(data, payment_type, Today(clock), payment_orders) IN
        /\ Len(payment_orders) < MaxOrders
        /\ payment_orders' = r.orders
        /\ returned' = IF r.err = "none" THEN Append(returned, r.ret) ELSE returned
        /\ lastCall' = [op |-> "add_payment", payment_type |-> payment_type,
                        data |-> data, today |-> Today(clock),
                        pre |-> payment_orders, err |-> r.err, ret |-> r.ret,
                        data_after |-> r.data]
        /\ UNCHANGED <<clock, gen>>

PreparePayment ==
    /\ payment_orders' = prepare_payment_orders
    /\ returned' = <<>>
    /\ lastCall' = [op |-> "prepare_payment", pre |-> payment_orders, err |-> "none"]
    /\ UNCHANGED <<clock, gen>>

DoPayment ==
    /\ payment_orders' = do_payment_orders(payment_orders)
    /\ lastCall' = [op |-> "do_payment", pre |-> payment_orders, err |-> "none",
                    document |-> payment_xml(payment_orders),
                    reqs |-> do_payment_requests]
    /\ UNCHANGED <<clock, returned, gen>>

\* what a read operation leaves in lastCall
ReadCall(op, args, r) ==
    [op |-> op, args |-> args, err |-> r.err, text |-> ErrorText(r.err),
     reqs |-> r.reqs, ret |-> r.ret]

Info ==
    \E resp \in Responses(NetPayloads) :
        /\ lastCall' = ReadCall("info", <<>>, info(Today(clock), resp))
        /\ UNCHANGED <<clock, payment_orders, returned, gen>>

Period ==
    \E from_date \in DateArgs, to_date \in DateArgs \ {None},
       resp \in Responses(NetPayloads) :
        LET r == period(from_date, to_date, resp) IN
        /\ lastCall' = ReadCall("period", <<from_date, to_date>>, r)
        /\ gen' = IF r.err = "none" THEN r.ret ELSE gen
        /\ UNCHANGED <<clock, payment_orders, returned>>

StatementCall ==
    \E number \in {1, 2}, resp \in Responses(NetPayloads) :
        LET r == statement(PyInt(2024), PyInt(number), resp) IN
        /\ lastCall' = ReadCall("statement", <<PyInt(2024), PyInt(number)>>, r)
        /\ gen' = IF r.err = "none" THEN r.ret ELSE gen
        /\ UNCHANGED <<clock, payment_orders, returned>>

Last ==
    \E from_id \in FromIds, from_date \in FromDates,
       resp1 \in Responses({}), resp2 \in Responses(NetPayloads) :
        LET r == last(from_id, from_date, resp1, resp2) IN
        /\ lastCall' = ReadCall("last", <<from_id, from_date>>, r)
        /\ gen' = IF r.err = "none" THEN r.ret ELSE gen
        /\ UNCHANGED <<clock, payment_orders, returned>>

\* the caller takes the next transaction from the generator
GenNext ==
    /\ gen.pc \in {"created", "suspended"}
    /\ gen' \in gen_next(gen)
    /\ UNCHANGED <<clock, payment_orders, returned, lastCall>>

NextPay == Tick \/ AddPayment \/ PreparePayment \/ DoPayment

SpecPay == Init /\ [][NextPay]_vars

NextNet == Tick \/ Info \/ Period \/ StatementCall \/ Last \/ DoPayment

SpecNet == Init /\ [][NextNet]_vars

\* the adapter after construction and one statement() call answered with any
\* of the payloads
InitDecode ==
    /\ clock = 0
    /\ payment_orders = prepare_payment_orders
    /\ returned = <<>>
    /\ \E data \in Payloads :
          LET resp == [kind |-> "http", status |-> 200, content |-> [t |-> "json", v |-> data]]
              r == statement(PyInt(2024), PyInt(1), resp)
          IN  /\ lastCall = ReadCall("statement", <<PyInt(2024), PyInt(1)>>, r)
              /\ gen = r.ret

NextDecode == GenNext

SpecDecode == InitDecode /\ [][NextDecode]_vars

(***************************************************************************)
(* Properties of the payment-order builder.                                *)
(***************************************************************************)
IsAddPayment == lastCall.op = "add_payment"

\* the required fields of the call's payment type that the caller left out
LeftOut == RequiredOf(lastCall.payment_type) \ DOMAIN lastCall.data

\* C1, as stated: add_payment called with fields that lack any one required
\* field of the given kind raises an error, and the order list after the
\* failed call is the list before it.
C1_AnyMissingFieldFails ==
    (IsAddPayment /\ lastCall.payment_type \in KnownPaymentTypes /\ LeftOut # {})
        => (lastCall.err # "none" /\ payment_orders = lastCall.pre)

\* C1, amended: add_payment called with fields that lack a required field
\* other than 'date' raises an error (KeyError for a domestic payment) and
\* leaves the order list as it was; a domestic call that lacks only 'date'
\* succeeds, because 'date' is inserted before the required fields are read.
C1_MissingNonDateFieldFails ==
    /\ (IsAddPayment /\ lastCall.payment_type \in KnownPaymentTypes
            /\ LeftOut \ {"date"} # {})
          => /\ lastCall.err # "none"
             /\ payment_orders = lastCall.pre
             /\ lastCall.payment_type = "DomesticTransaction" => lastCall.err = "KeyError"
    /\ (IsAddPayment /\ lastCall.payment_type = "DomesticTransaction"
            /\ LeftOut = {"date"})
          => lastCall.err = "none"

C1_Witness ==
    /\ IsAddPayment
    /\ lastCall.payment_type = "DomesticTransaction"
    /\ LeftOut = {"accountTo"}
    /\ lastCall.err = "KeyError"
    /\ lastCall.pre # <<>>
    /\ payment_orders = lastCall.pre

\* C2, as stated: for each of DomesticTransaction, T2Transaction and
\* ForeignTransaction, add_payment with all required fields present succeeds
\* and appends exactly one order tagged with that kind; for any other kind it
\* raises an error and appends nothing.
C2_EveryKnownKindAccepted ==
    IsAddPayment =>
        /\ (lastCall.payment_type \in KnownPaymentTypes /\ LeftOut \ {"date"} = {})
              => /\ lastCall.err = "none"
                 /\ lastCall.ret.tag = lastCall.payment_type
                 /\ payment_orders = Append(lastCall.pre, lastCall.ret)
        /\ lastCall.payment_type \notin KnownPaymentTypes
              => (lastCall.err # "none" /\ payment_orders = lastCall.pre)

\* C3: every order produced by a successful add_payment carries, as its date,
\* the text of the current date at the time of the call, whatever the caller
\* supplied under 'date'.
C3_DateIsToday ==
    /\ (IsAddPayment /\ lastCall.err = "none")
          => lastCall.ret.children["date"] = DateIso(lastCall.today)
    /\ \A i \in 1..Len(payment_orders) :
          \E c \in 0..clock : payment_orders[i].children["date"] = DateIso(Today(c))

C3_Witness ==
    /\ IsAddPayment
    /\ lastCall.err = "none"
    /\ "date" \in DOMAIN lastCall.data
    /\ str(lastCall.data["date"]) # DateIso(lastCall.today)
    /\ lastCall.ret.children["date"] = DateIso(lastCall.today)

\* C4: the order list is exactly the orders returned by the successful
\* add_payment calls since construction or the last prepare_payment, in call
\* order: prepare_payment empties it, a successful add_payment appends one
\* order at the end, a failed one and do_payment leave it unchanged.
C4_OrdersAreReturnedOrders ==
    /\ payment_orders = returned
    /\ lastCall.op = "prepare_payment" => payment_orders = <<>>
    /\ lastCall.op = "do_payment" => payment_orders = lastCall.pre
    /\ (IsAddPayment /\ lastCall.err = "none")
          => payment_orders = Append(lastCall.pre, lastCall.ret)
    /\ (IsAddPayment /\ lastCall.err # "none") => payment_orders = lastCall.pre

C4_Witness ==
    /\ lastCall.op = "do_payment"
    /\ Len(payment_orders) = 2
    /\ payment_orders[1] # payment_orders[2]
    /\ payment_orders = returned
    /\ lastCall.document.children[1].children = payment_orders

(***************************************************************************)
(* Properties of the request dispatcher and the read operations.           *)
(***************************************************************************)
ReadOps == {"info", "period", "statement", "last"}

\* whether sub occurs in s
Contains(s, sub) ==
    \E i \in 1..(Len(s) - Len(sub) + 1) : SubSeq(s, i, i + Len(sub) - 1) = sub

\* C5, as stated: last called with both from_id and from_date set (not None)
\* raises ValueError, and no request has been issued when it fails.
C5_BothGivenFails ==
    (lastCall.op = "last" /\ lastCall.args[1].t # "none" /\ lastCall.args[2].t # "none")
        => (lastCall.err = "ValueError" /\ lastCall.reqs = <<>>)

\* C5, amended: last called with both from_id and from_date set to true
\* values (not None, not empty, not zero) raises ValueError, and no request
\* (set-last-id, set-last-date or last) has been issued when it fails.
C5_BothTrueFails ==
    (lastCall.op = "last" /\ Truthy(lastCall.args[1]) /\ Truthy(lastCall.args[2]))
        => (lastCall.err = "ValueError" /\ lastCall.reqs = <<>>)

C5_Witness ==
    /\ lastCall.op = "last"
    /\ lastCall.args[1] = PyStr(<<"1", "2", "3">>)
    /\ Truthy(lastCall.args[2])
    /\ lastCall.err = "ValueError"
    /\ lastCall.reqs = <<>>

\* C6, as stated: each operation that reaches the network (info, period,
\* statement, last with or without a constraint, do_payment) issues exactly
\* one round trip per call.
C6_OneRoundTrip ==
    /\ (lastCall.op \in ReadOps /\ lastCall.reqs # <<>>) => Len(lastCall.reqs) = 1
    /\ lastCall.op = "do_payment" => Len(lastCall.reqs) = 1

\* C7: when the server answers a request of a read operation with the
\* conflict status, the operation raises ThrottlingError, whose text names
\* the 30 s interval, and the answered request is the last one the call
\* issues.
C7_ConflictIsThrottling ==
    lastCall.op \in ReadOps =>
        \A i \in 1..Len(lastCall.reqs) :
            lastCall.reqs[i].status = conflict =>
                /\ lastCall.err = "ThrottlingError"
                /\ lastCall.text = ThrottlingError_str
                /\ Contains(lastCall.text, <<"3", "0", "s">>)
                /\ i = Len(lastCall.reqs)

C7_Witness ==
    /\ lastCall.op = "last"
    /\ Len(lastCall.reqs) = 1
    /\ lastCall.reqs[1].action = "set-last-id"
    /\ lastCall.reqs[1].status = conflict
    /\ lastCall.err = "ThrottlingError"

(***************************************************************************)
(* Properties of the statement decoder.                                    *)
(***************************************************************************)
\* the value under key of a dict value, None when there is none
Member(v, key) == IF v.t = "dict" /\ key \in DOMAIN v.m THEN v.m[key] ELSE None

Has(v, key) == v.t = "dict" /\ key \in DOMAIN v.m

Scalar(v) == v.t \in {"none", "str", "int", "float"}

\* a column of the shape {value: <scalar>} whose value its converter accepts,
\* or null
ValidColumn(column_data, convert) ==
    \/ column_data.t = "none"
    \/ /\ Has(column_data, "value")
       /\ Scalar(column_data.m["value"])
       /\ sanitize_value(column_data.m["value"], convert).err = "none"

ValidEntry(entry) ==
    /\ entry.t = "dict"
    /\ \A c \in DOMAIN entry.m :
          /\ lower(c) \in DOMAIN transaction_schema
          /\ ValidColumn(entry.m[c], transaction_schema[lower(c)].convert)

\* the list under accountStatement.transactionList.transaction
TransactionList(data) ==
    Member(Member(Member(data, "accountStatement"), "transactionList"), "transaction")

ValidPayload(data) ==
    /\ TransactionList(data).t = "list"
    /\ \A i \in 1..Len(TransactionList(data).l) : ValidEntry(TransactionList(data).l[i])

\* a column that holds a value which is neither null nor blank
HoldsValue(column_data) ==
    /\ Has(column_data, "value")
    /\ column_data.m["value"].t # "none"
    /\ column_data.m["value"].t = "str" => strip(column_data.m["value"].s) # <<>>

\* the transaction is the complete record of the entry
RecordOf(entry, trans) ==
    \A c \in DOMAIN transaction_schema :
        LET f == transaction_schema[c].field
            keys == {k \in DOMAIN entry.m : lower(k) = c}
        IN  /\ f \in DOMAIN trans
            /\ (\E k \in keys : HoldsValue(entry.m[k])) => trans[f].t # "none"
            /\ keys = {} => trans[f].t = "none"

\* C8, as stated: for every valid statement payload the decoder yields
\* exactly one transaction per entry, in source order, each holding every
\* field of the schema: non-null where the entry's column holds a value, null
\* where the entry has no such column.
C8_OneRecordPerEntry ==
    (gen.pc \in {"suspended", "raised", "done"} /\ ValidPayload(gen.data)) =>
        /\ gen.pc # "raised"
        /\ gen.entries = TransactionList(gen.data).l
        /\ Len(gen.yielded) = gen.pos
        /\ gen.pc = "done" => gen.pos = Len(gen.entries)
        /\ \A i \in 1..Len(gen.yielded) : RecordOf(gen.entries[i], gen.yielded[i])

UnknownKeys(entry) == {c \in DOMAIN entry.m : lower(c) \notin DOMAIN transaction_schema}

\* the decoder has reached entry i and raised there
RaisedAt(i) == gen.pc = "raised" /\ gen.pos = i

\* C9, as stated: the decoder raises whenever an entry holds a column key
\* that, lower-cased, is not in the schema; such a key is never silently
\* dropped.
C9_UnknownKeyRaises ==
    gen.pc \in {"suspended", "raised", "done"} =>
        \A i \in 1..gen.pos :
            (gen.entries[i].t = "dict" /\ UnknownKeys(gen.entries[i]) # {}) => RaisedAt(i)

\* C9, amended: the decoder raises when it reaches an entry that holds an
\* unrecognized column key whose column is not empty (KeyError, unless a
\* column of the same entry that was read first raised another error); an
\* unrecognized key whose column is null or empty is skipped without error.
C9_UnknownFilledKeyRaises ==
    gen.pc \in {"suspended", "raised", "done"} =>
        \A i \in 1..gen.pos :
            LET e == gen.entries[i]
                filled == {c \in UnknownKeys(e) : Truthy(e.m[c])}
                others == {column_outcome(c, e.m[c]) : c \in DOMAIN e.m \ UnknownKeys(e)}
            IN  e.t = "dict" =>
                  /\ filled # {} =>
                        (RaisedAt(i) /\ gen.err \in {"KeyError"} \cup (others \ {"none", "skip"}))
                  /\ (/\ UnknownKeys(e) # {} /\ filled = {}
                      /\ others \subseteq {"none", "skip"}
                      /\ \A c \in DOMAIN e.m : lower(c) # "column18")
                        => ~RaisedAt(i)

C9_Witness ==
    /\ gen.pc = "raised"
    /\ gen.err = "KeyError"
    /\ gen.pos = 2
    /\ Len(gen.yielded) = 1
    /\ UnknownKeys(gen.entries[2]) = {"column99"}
    /\ Truthy(gen.entries[2].m["column99"])

\* the shapes of a payload without a usable transaction list
NullPayload(data) == data.t = "none"
NullStatement(data) == Has(data, "accountStatement") /\ data.m["accountStatement"].t = "none"
NullList(data) ==
    /\ Has(Member(data, "accountStatement"), "transactionList")
    /\ Member(Member(data, "accountStatement"), "transactionList").t = "none"
MissingList(data) ==
    /\ Member(data, "accountStatement").t = "dict"
    /\ ~Has(Member(data, "accountStatement"), "transactionList")
WrongTypeList(data) ==
    /\ Has(Member(data, "accountStatement"), "transactionList")
    /\ Member(Member(data, "accountStatement"), "transactionList").t \notin {"none", "dict"}

\* the generator was asked for a transaction, raised nothing and is exhausted
\* without having yielded one
DecodedEmpty == gen.pc = "done" /\ gen.err = "none" /\ gen.yielded = <<>>

\* C10, as stated: on a null payload, a null accountStatement, a null or
\* missing transactionList or a transactionList of the wrong type the decoder
\* raises no error and yields nothing.
C10_NoListDecodesEmpty ==
    (/\ gen.pc \in {"suspended", "raised", "done"}
     /\ \/ NullPayload(gen.data) \/ NullStatement(gen.data) \/ NullList(gen.data)
        \/ MissingList(gen.data) \/ WrongTypeList(gen.data))
        => DecodedEmpty

\* C10, amended: on a null payload, a null accountStatement, a null
\* transactionList or a transactionList of the wrong type the decoder raises
\* no error and yields nothing; when the accountStatement has no
\* transactionList key the decoder raises KeyError.
C10_NullListDecodesEmpty ==
    gen.pc \in {"suspended", "raised", "done"} =>
        /\ (\/ NullPayload(gen.data) \/ NullStatement(gen.data) \/ NullList(gen.data)
            \/ WrongTypeList(gen.data))
              => DecodedEmpty
        /\ MissingList(gen.data) =>
              (gen.pc = "raised" /\ gen.err = "KeyError" /\ gen.yielded = <<>>)

C10_Witness ==
    /\ DecodedEmpty
    /\ WrongTypeList(gen.data)
    /\ Member(Member(gen.data, "accountStatement"), "transactionList").t = "list"

====
